---------------------------- MODULE Spec2Model ----------------------------
(***************************************************************************)
(* The sampler-logger loop of SpectrumAnalyzerApp (spectrum_try4.py, and   *)
(* identically spectrum_try3.py): the periodic update_plot callback, the   *)
(* pause / resume / reset / save-image button handlers, the log file, the  *)
(* plot surface and the instrument session.                                *)
(*                                                                         *)
(* The program is single-threaded.  A handler runs on the Qt event loop    *)
(* and blocks it, except while it shows a modal dialog (QMessageBox,       *)
(* QFileDialog): the static dialog functions run a nested event loop, in   *)
(* which the QTimer keeps delivering timeout() while the application-modal *)
(* dialog keeps the buttons of the window from being clicked.  The model   *)
(* keeps the Python call stack of the handlers in progress: the top frame  *)
(* is the one executing, every frame below it is blocked in a dialog.      *)
(***************************************************************************)
EXTENDS Naturals, Sequences, FiniteSets

\* Bound of the model: how many update_plot / reset_parameters invocations
\* are followed (each gets an id 1..MaxInvocations).
MaxInvocations == 3

VARIABLES
    opened,     \* self.sa exists: rm.open_resource succeeded in initUI
    pause,      \* self.pause: "unset" (attribute never assigned), "False", "True"
    timer,      \* self.timer: "none" (never created) or "active" (started, 1000 ms)
    stack,      \* handler invocations in progress, innermost last
    file,       \* content of rfi_file_path on disk: a sequence of lines
    handles,    \* open file objects on rfi_file_path, each with its write buffer
    canvas,     \* plot surface: self.ax, the data drawn on it, number of canvas.draw()
    session,    \* instrument calls of the invocation that used self.sa last
    served,     \* ids of the invocations that used self.sa before that one
    nextId,     \* id of the next update_plot / reset_parameters invocation
    sample      \* one tick with its values spelled out: clock, answers, lines written

vars == <<opened, pause, timer, stack, file, handles, canvas, session, served, nextId,
          sample>>

-----------------------------------------------------------------------------
(* Program constants *)

QueriesSpanFirst ==
    << "TRACE:DATA? TRACE1", ":SENSE:FREQ:SPAN?", ":SENSE:FREQ:CENTER?",
       ":SENSE:BAND:RES?", ":SENSE:BAND:VID?", ":DISP:WIND:TRAC:Y:RLEV?",
       ":SWE:TIME?", ":DISP:WIND:TRAC:Y:SCAL?", ":INP:ATT?", ":AVER:COUN?" >>

\* The ten queries of update_plot, in program order.
Queries ==
    << "TRACE:DATA? TRACE1", ":SENSE:FREQ:CENTER?", ":SENSE:FREQ:SPAN?",
       ":SENSE:BAND:RES?", ":SENSE:BAND:VID?", ":DISP:WIND:TRAC:Y:RLEV?",
       ":SWE:TIME?", ":DISP:WIND:TRAC:Y:SCAL?", ":INP:ATT?", ":AVER:COUN?" >>

ResetWritesSpanFirst ==
    << "*RST",
       ":SENSE:FREQ:SPAN 1000000000.0", ":SENSE:FREQ:CENTER 100000000.0",
       ":SENSE:BAND:RES 100000.0", ":SENSE:BAND:VID 100000.0",
       ":DISP:WIND:TRAC:Y:RLEV -10.0", ":DISP:WIND:TRAC:Y:SCAL 10.0",
       ":INP:ATT 0.0", ":AVER:COUN 1.0" >>

\* The nine writes of reset_parameters, in program order (f-strings of the
\* Python floats 100e6, 1e9, 100e3, 100e3, -10.0, 10.0, 0.0, 1.0).
ResetWrites ==
    << "*RST",
       ":SENSE:FREQ:CENTER 100000000.0", ":SENSE:FREQ:SPAN 1000000000.0",
       ":SENSE:BAND:RES 100000.0", ":SENSE:BAND:VID 100000.0",
       ":DISP:WIND:TRAC:Y:RLEV -10.0", ":DISP:WIND:TRAC:Y:SCAL 10.0",
       ":INP:ATT 0.0", ":AVER:COUN 1.0" >>

\* Outcomes of one blocking instrument round trip followed by its conversion:
\* "ok"; the call raises (pyvisa.VisaIOError); the call returns but float() /
\* the ASCII parse of the answer raises (ValueError).
CallOutcomes == {"ok", "VisaIOError", "ValueError"}

\* The places of a handler where it is blocked in a modal dialog.
DialogPcs == {"critical", "information", "filedialog"}

-----------------------------------------------------------------------------
(* Helpers *)

Top == stack[Len(stack)]

Pop == SubSeq(stack, 1, Len(stack) - 1)

ReplaceTop(f) == [stack EXCEPT ![Len(stack)] = f]

EventLoopAlways == TRUE

\* An event loop is dispatching events: the main loop (no handler in
\* progress) or the nested loop of the dialog the innermost handler shows.
EventLoopRunning == IF stack = <<>> THEN TRUE ELSE Top.pc \in DialogPcs

\* Button clicks reach the window only when no modal dialog is open.
AcceptsInput == stack = <<>>

\* The answer to the k-th call of invocation id.  Every answer is a fresh
\* reading of the instrument, named by the call that obtained it.
Response(id, k) == [by |-> id, q |-> k]

\* A frame of the call stack.  op: the handler; via: what called it; pc:
\* where it is; vals: the results of its instrument calls completed so far
\* (update_plot: trace_data, center_freq, ..., avg_num); now: current_time;
\* err: the step that raised, "" if none.  startLen and startDraws record
\* Len(file) and canvas.draws at entry.
Frame(op, via, id, pc) ==
    [op |-> op, via |-> via, id |-> id, pc |-> pc, vals |-> <<>>,
     now |-> Response(id, 0), err |-> "",
     startLen |-> Len(file), startDraws |-> canvas.draws]

RaiseAndRetry(f, step) == f

\* except Exception: ... QMessageBox.critical(...): the handler stops where it
\* is and blocks in the modal error dialog.
Raise(f, step) == [f EXCEPT !.pc = "critical", !.err = step]

\* self.sa.<call>(cmd) by invocation id: the session's record of the calls of
\* the invocation using it, done = the round trip completed.
IssueCall(id, cmd, done) ==
    IF session.by = id
    THEN [session EXCEPT !.calls = Append(@, [cmd |-> cmd, done |-> done])]
    ELSE [by |-> id, calls |-> << [cmd |-> cmd, done |-> done] >>]

ServedAfter(id) ==
    IF session.by = id \/ session.by = 0 THEN served ELSE served \cup {session.by}

NotPausedIgnored(p) == TRUE

\* `if not self.pause:` at the head of update_plot.
NotPaused(p) == p # "True"

\* The lines of one record.  by: the invocation that wrote the line; fields:
\* the values formatted into it, in order; end: the marker closing the line.
HeaderLine(f) ==
    [kind |-> "header", by |-> f.id,
     fields |-> <<f.now>> \o SubSeq(f.vals, 2, Len(Queries)), end |-> "*"]

TraceLineStale(f) ==
    [kind |-> "trace", by |-> f.id, fields |-> canvas.data, end |-> "@"]

TraceLine(f) ==
    [kind |-> "trace", by |-> f.id, fields |-> <<f.vals[1]>>, end |-> "@"]

BlankLine(f) == [kind |-> "blank", by |-> f.id, fields |-> <<>>, end |-> ""]

\* The file object invocation id holds open.
HandleOf(hs, id) == CHOOSE h \in hs : h.by = id

\* file.write(lines): the text goes to the buffer of the file object.
WriteTo(hs, id, lines) ==
    {IF h.by = id THEN [h EXCEPT !.buf = @ \o lines] ELSE h : h \in hs}

\* Leaving `with open(...) as file:` closes the file object, whether the
\* block ended normally or by an exception (raised); closing flushes the
\* buffer to the file on disk.
WithExitLeak(hs, id, raised) ==
    IF raised THEN hs ELSE {h \in hs : h.by # id}

WithExit(hs, id, raised) == {h \in hs : h.by # id}

FlushTruncating(hs, id) == HandleOf(hs, id).buf

FlushOnExit(hs, id) == file \o HandleOf(hs, id).buf

-----------------------------------------------------------------------------
(* Initial state: after SpectrumAnalyzerApp.__init__ / initUI has returned *)

\* The handlers below follow where each value comes from, not its digits.
NoSample == [now |-> <<>>, answers |-> <<>>, lines |-> <<>>]

InitWithoutReturn ==
    /\ opened \in BOOLEAN
    /\ pause = "False"
    /\ timer = "active"
    /\ stack = <<>>
    /\ file = <<>>
    /\ handles = {}
    /\ canvas = [ax |-> "None", data |-> <<>>, draws |-> 0]
    /\ session = [by |-> 0, calls |-> <<>>]
    /\ served = {}
    /\ nextId = 1
    /\ sample = NoSample

\* opened: open_resource succeeded.  When it raises, initUI shows the error
\* and returns before self.pause and self.timer exist.
Init ==
    /\ opened \in BOOLEAN
    /\ pause = IF opened THEN "False" ELSE "unset"
    /\ timer = IF opened THEN "active" ELSE "none"
    /\ stack = <<>>
    /\ file = <<>>
    /\ handles = {}
    /\ canvas = [ax |-> "None", data |-> <<>>, draws |-> 0]
    /\ session = [by |-> 0, calls |-> <<>>]
    /\ served = {}
    /\ nextId = 1
    /\ sample = NoSample

-----------------------------------------------------------------------------
(* update_plot *)

\* A call of update_plot with self.pause = p: nothing when paused, otherwise
\* the body starts with the first query.
EnterUpdatePlot(p, via) ==
    /\ nextId <= MaxInvocations
    /\ nextId' = nextId + 1
    /\ stack' = IF NotPaused(p)
                THEN Append(stack, Frame("update_plot", via, nextId, "query"))
                ELSE stack

\* self.timer.timeout -> update_plot, delivered by whichever event loop runs.
TimerTimeout ==
    /\ timer = "active"
    /\ EventLoopRunning
    /\ EnterUpdatePlot(pause, "timer")
    /\ UNCHANGED <<sample, opened, pause, timer, file, handles, canvas, session, served>>

AfterQueryPlotsFirst(f, k) ==
    [f EXCEPT !.vals = Append(@, Response(f.id, k)),
              !.pc = IF k = Len(Queries) THEN "plot" ELSE "query"]

\* A query has returned and its answer is converted: the next query follows,
\* after the tenth the with block.
AfterQuery(f, k) ==
    [f EXCEPT !.vals = Append(@, Response(f.id, k)),
              !.pc = IF k = Len(Queries) THEN "open" ELSE "query"]

\* One of the ten queries (lines 90-100); without a session self.sa raises
\* AttributeError before any call is made.
UpdatePlotQuery ==
    /\ stack # <<>> /\ Top.op = "update_plot" /\ Top.pc = "query"
    /\ LET f == Top
           k == Len(Top.vals) + 1
       IN  IF ~opened
           THEN /\ stack' = ReplaceTop(Raise(f, "query"))
                /\ UNCHANGED <<session, served>>
           ELSE \E o \in CallOutcomes :
                /\ session' = IssueCall(f.id, Queries[k], o # "VisaIOError")
                /\ served' = ServedAfter(f.id)
                /\ stack' = ReplaceTop(IF o = "ok" THEN AfterQuery(f, k)
                                                   ELSE Raise(f, "query"))
    /\ UNCHANGED <<sample, opened, pause, timer, file, handles, canvas, nextId>>

\* open(rfi_file_path, 'a')
UpdatePlotOpen ==
    /\ stack # <<>> /\ Top.op = "update_plot" /\ Top.pc = "open"
    /\ \E ok \in BOOLEAN :
        IF ok
        THEN /\ handles' = handles \cup {[by |-> Top.id, buf |-> <<>>]}
             /\ stack' = ReplaceTop([Top EXCEPT !.pc = "write1"])
        ELSE /\ handles' = handles
             /\ stack' = ReplaceTop(Raise(Top, "open"))
    /\ UNCHANGED <<sample, opened, pause, timer, file, canvas, session, served, nextId>>

\* file.write(header line)
UpdatePlotWrite1 ==
    /\ stack # <<>> /\ Top.op = "update_plot" /\ Top.pc = "write1"
    /\ \E ok \in BOOLEAN :
        IF ok
        THEN /\ handles' = WriteTo(handles, Top.id, <<HeaderLine(Top)>>)
             /\ file' = file
             /\ stack' = ReplaceTop([Top EXCEPT !.pc = "write2"])
        ELSE /\ file' = FlushOnExit(handles, Top.id)
             /\ handles' = WithExit(handles, Top.id, TRUE)
             /\ stack' = ReplaceTop(Raise(Top, "write1"))
    /\ UNCHANGED <<sample, opened, pause, timer, canvas, session, served, nextId>>

\* file.write(trace line + blank line), then the end of the with block
UpdatePlotWrite2 ==
    /\ stack # <<>> /\ Top.op = "update_plot" /\ Top.pc = "write2"
    /\ \E ok \in BOOLEAN :
        IF ok
        THEN LET hs == WriteTo(handles, Top.id, <<TraceLine(Top), BlankLine(Top)>>)
             IN  /\ file' = FlushOnExit(hs, Top.id)
                 /\ handles' = WithExit(hs, Top.id, FALSE)
                 /\ stack' = ReplaceTop([Top EXCEPT !.pc = "plot"])
        ELSE /\ file' = FlushOnExit(handles, Top.id)
             /\ handles' = WithExit(handles, Top.id, TRUE)
             /\ stack' = ReplaceTop(Raise(Top, "write2"))
    /\ UNCHANGED <<sample, opened, pause, timer, canvas, session, served, nextId>>

\* The plot update (lines 109-117): add_subplot if needed, clear, plot, labels,
\* grid, canvas.draw(); then update_plot returns.  A failure may come before
\* or after ax.clear().
UpdatePlotDraw ==
    /\ stack # <<>> /\ Top.op = "update_plot" /\ Top.pc = "plot"
    /\ \/ /\ canvas' = [ax |-> "axes", data |-> <<Top.vals[1]>>,
                        draws |-> canvas.draws + 1]
          /\ stack' = Pop
       \/ /\ \E cleared \in BOOLEAN :
                canvas' = IF cleared
                          THEN [canvas EXCEPT !.ax = "axes", !.data = <<>>]
                          ELSE canvas
          /\ stack' = ReplaceTop(Raise(Top, "plot"))
    /\ UNCHANGED <<sample, opened, pause, timer, file, handles, session, served, nextId>>

-----------------------------------------------------------------------------
(* The buttons *)

PauseUpdates ==
    /\ AcceptsInput
    /\ pause' = "True"
    /\ UNCHANGED <<sample, opened, timer, stack, file, handles, canvas, session, served, nextId>>

ResumeWithoutTick ==
    /\ AcceptsInput
    /\ pause' = "False"
    /\ UNCHANGED <<sample, opened, timer, stack, file, handles, canvas, session, served, nextId>>

ResumeUpdates ==
    /\ AcceptsInput
    /\ pause' = "False"
    /\ EnterUpdatePlot(pause', "resume")
    /\ UNCHANGED <<sample, opened, timer, file, handles, canvas, session, served>>

ResetUnlessPaused ==
    /\ AcceptsInput
    /\ NotPaused(pause)
    /\ nextId <= MaxInvocations
    /\ nextId' = nextId + 1
    /\ stack' = Append(stack, Frame("reset_parameters", "button", nextId, "write"))
    /\ UNCHANGED <<sample, opened, pause, timer, file, handles, canvas, session, served>>

\* The reset button: reset_parameters starts with its first write.
ResetParameters ==
    /\ AcceptsInput
    /\ nextId <= MaxInvocations
    /\ nextId' = nextId + 1
    /\ stack' = Append(stack, Frame("reset_parameters", "button", nextId, "write"))
    /\ UNCHANGED <<sample, opened, pause, timer, file, handles, canvas, session, served>>

AfterWrite(f, k) ==
    [f EXCEPT !.vals = Append(@, Response(f.id, k)),
              !.pc = IF k = Len(ResetWrites) THEN "information" ELSE "write"]

\* One of the nine writes of reset_parameters (lines 142-162).
ResetWrite ==
    /\ stack # <<>> /\ Top.op = "reset_parameters" /\ Top.pc = "write"
    /\ LET f == Top
           k == Len(Top.vals) + 1
       IN  IF ~opened
           THEN /\ stack' = ReplaceTop(Raise(f, "write"))
                /\ UNCHANGED <<session, served>>
           ELSE \E ok \in BOOLEAN :
                /\ session' = IssueCall(f.id, ResetWrites[k], ok)
                /\ served' = ServedAfter(f.id)
                /\ stack' = ReplaceTop(IF ok THEN AfterWrite(f, k)
                                             ELSE Raise(f, "write"))
    /\ UNCHANGED <<sample, opened, pause, timer, file, handles, canvas, nextId>>

SavePlotImage ==
    /\ AcceptsInput
    /\ stack' = Append(stack, Frame("save_plot_image", "button", 0, "filedialog"))
    /\ UNCHANGED <<sample, opened, pause, timer, file, handles, canvas, session, served, nextId>>

\* QFileDialog.getSaveFileName returns: no path chosen, or fig.savefig works
\* and the information box is shown, or something raises.
FileDialogDone ==
    /\ stack # <<>> /\ Top.pc = "filedialog"
    /\ \E o \in {"cancel", "saved", "error"} :
        stack' = IF o = "cancel" THEN Pop
                 ELSE IF o = "saved" THEN ReplaceTop([Top EXCEPT !.pc = "information"])
                 ELSE ReplaceTop(Raise(Top, "savefig"))
    /\ UNCHANGED <<sample, opened, pause, timer, file, handles, canvas, session, served, nextId>>

\* The user closes the message box on top; its handler returns.
Dismiss ==
    /\ stack # <<>> /\ Top.pc \in {"critical", "information"}
    /\ stack' = Pop
    /\ UNCHANGED <<sample, opened, pause, timer, file, handles, canvas, session, served, nextId>>

-----------------------------------------------------------------------------

Next ==
    \/ TimerTimeout
    \/ UpdatePlotQuery
    \/ UpdatePlotOpen
    \/ UpdatePlotWrite1
    \/ UpdatePlotWrite2
    \/ UpdatePlotDraw
    \/ PauseUpdates
    \/ ResumeUpdates
    \/ ResetParameters
    \/ ResetWrite
    \/ SavePlotImage
    \/ FileDialogDone
    \/ Dismiss

Spec == Init /\ [][Next]_vars

-----------------------------------------------------------------------------
(* The text of a record (update_plot, lines 91-106) *)

\* A number the instrument answers, as float() reads it: (-1)^neg * m / 10^s.
\* The values followed here lie where Python prints a float in positional
\* notation (0, or 1e-4 <= |x| < 1e16) and where the double nearest to the
\* decimal value formats like the decimal value itself.
Num(neg, m, s) == [neg |-> neg, m |-> m, s |-> s]

DigitChars == <<"0", "1", "2", "3", "4", "5", "6", "7", "8", "9">>

RECURSIVE Pow10(_)
Pow10(n) == IF n = 0 THEN 1 ELSE 10 * Pow10(n - 1)

\* str(n) of a natural number.
RECURSIVE Digits(_)
Digits(n) ==
    IF n < 10 THEN DigitChars[n + 1]
    ELSE Digits(n \div 10) \o DigitChars[(n % 10) + 1]

\* n in exactly w digits, zero-padded on the left (w = 0: the empty text).
RECURSIVE PadDigits(_, _)
PadDigits(n, w) ==
    IF w = 0 THEN ""
    ELSE PadDigits(n \div 10, w - 1) \o DigitChars[(n % 10) + 1]

RECURSIVE Zeros(_)
Zeros(w) == IF w = 0 THEN "" ELSE "0" \o Zeros(w - 1)

Sign(x) == IF x.neg THEN "-" ELSE ""

\* x / 1e6, x / 1e9, x / 1e3: the decimal point moves k places left.
DivPow10(x, k) == [x EXCEPT !.s = @ + k]

\* x * 1000.0: the decimal point moves k places right.
MulPow10(x, k) ==
    IF x.s >= k THEN [x EXCEPT !.s = @ - k]
    ELSE [x EXCEPT !.m = @ * Pow10(k - x.s), !.s = 0]

FormatFTruncating(x, d) ==
    IF x.s <= d
    THEN Sign(x) \o Digits(x.m \div Pow10(x.s)) \o "."
            \o PadDigits(x.m % Pow10(x.s), x.s) \o Zeros(d - x.s)
    ELSE LET q == x.m \div Pow10(x.s - d)
         IN  Sign(x) \o Digits(q \div Pow10(d)) \o "." \o PadDigits(q % Pow10(d), d)

\* f"{x:.<d>f}": d digits after the point, the value rounded to the nearest,
\* a value exactly half way to the even digit; the sign of x is kept.
FormatF(x, d) ==
    IF x.s <= d
    THEN Sign(x) \o Digits(x.m \div Pow10(x.s)) \o "."
            \o PadDigits(x.m % Pow10(x.s), x.s) \o Zeros(d - x.s)
    ELSE LET unit == Pow10(x.s - d)
             q    == x.m \div unit
             r    == x.m % unit
             up   == (r + r > unit) \/ (r + r = unit /\ q % 2 = 1)
             n    == IF up THEN q + 1 ELSE q
         IN  Sign(x) \o Digits(n \div Pow10(d)) \o "." \o PadDigits(n % Pow10(d), d)

\* x without the zeros ending its fraction.
RECURSIVE Shortest(_)
Shortest(x) ==
    IF x.s > 0 /\ x.m % 10 = 0
    THEN Shortest([x EXCEPT !.m = @ \div 10, !.s = @ - 1])
    ELSE x

\* f"{x}" of a float: the shortest digits that read back as x, with at least
\* one digit after the point.
Repr(x) ==
    LET y == Shortest(x)
    IN  IF y.s = 0 THEN Sign(y) \o Digits(y.m) \o ".0"
        ELSE Sign(y) \o Digits(y.m \div Pow10(y.s)) \o "."
                \o PadDigits(y.m % Pow10(y.s), y.s)

\* datetime.now().strftime('%Y-%m-%d %H:%M:%S') of the clock reading
\* t = <<year, month, day, hour, minute, second>>.
Strftime(t) ==
    PadDigits(t[1], 4) \o "-" \o PadDigits(t[2], 2) \o "-" \o PadDigits(t[3], 2)
        \o " " \o PadDigits(t[4], 2) \o ":" \o PadDigits(t[5], 2)
        \o ":" \o PadDigits(t[6], 2)

\* ','.join(map(lambda x: f"{x:.2f}", trace_data)) + ',' ; the caller adds '@'.
RECURSIVE JoinTrace(_)
JoinTrace(trace) ==
    IF trace = <<>> THEN ","
    ELSE IF Len(trace) = 1 THEN FormatF(trace[1], 2) \o ","
    ELSE FormatF(trace[1], 2) \o "," \o JoinTrace(Tail(trace))

\* The header line of line 105, from the clock reading and the ten answers a
\* (a[1] the trace, a[2..10] the scalars), with the conversions of lines 92-101.
HeaderText(now, a) ==
    LET center_freq   == DivPow10(a[2], 6)
        span          == DivPow10(a[3], 9)
        rbw           == DivPow10(a[4], 3)
        vbw           == DivPow10(a[5], 3)
        ref_level     == a[6]
        sweep_time_ms == MulPow10(a[7], 3)
        amp_div       == a[8]
        att           == a[9]
        avg_num       == a[10]
    IN  Strftime(now) \o "," \o FormatF(center_freq, 6) \o "," \o FormatF(span, 9)
            \o "," \o FormatF(rbw, 3) \o "," \o FormatF(vbw, 3)
            \o "," \o Repr(ref_level) \o "," \o Repr(sweep_time_ms)
            \o "," \o Repr(amp_div) \o "," \o Repr(att) \o "," \o Repr(avg_num)
            \o ",*"

\* The trace line of line 106 (the blank line that follows it is the "\n\n").
TraceText(a) == JoinTrace(a[1]) \o "@"

\* Clock readings and instrument answers the text is followed for.
ClockReadings == { <<2024, 7, 12, 10, 0, 0>>, <<2025, 1, 5, 9, 3, 7>> }

CenterAnswers == { Num(FALSE, 100000000, 0), Num(FALSE, 750000000, 0),
                   Num(FALSE, 1234567, 0) }

SpanAnswers == { Num(FALSE, 1000000000, 0), Num(FALSE, 200000000, 0),
                 Num(FALSE, 1500000001, 0) }

BandwidthAnswers == { Num(FALSE, 100000, 0), Num(FALSE, 3000, 0), Num(FALSE, 1, 0) }

LevelAnswers == { Num(TRUE, 10, 0), Num(TRUE, 305, 1), Num(FALSE, 0, 0) }

SweepAnswers == { Num(FALSE, 1, 2), Num(FALSE, 5, 1), Num(FALSE, 2, 0) }

ScaleAnswers == { Num(FALSE, 10, 0), Num(FALSE, 25, 1) }

AttenuationAnswers == { Num(FALSE, 0, 0), Num(FALSE, 5, 0) }

AverageAnswers == { Num(FALSE, 1, 0), Num(FALSE, 100, 0) }

TraceAnswers ==
    { <<>>,
      << Num(TRUE, 50123, 3), Num(TRUE, 60456, 3) >>,
      << Num(FALSE, 125, 3), Num(FALSE, 375, 3), Num(TRUE, 1, 3) >>,
      << Num(TRUE, 9996, 2) >> }

\* A tick with the session open and all calls answered: any clock reading and
\* any combination of answers, nothing written yet.
FormatInit ==
    /\ opened = TRUE /\ pause = "False" /\ timer = "active"
    /\ stack = <<>> /\ file = <<>> /\ handles = {}
    /\ canvas = [ax |-> "None", data |-> <<>>, draws |-> 0]
    /\ session = [by |-> 0, calls |-> <<>>]
    /\ served = {} /\ nextId = 1
    /\ \E now \in ClockReadings, trace \in TraceAnswers, c \in CenterAnswers,
          sp \in SpanAnswers, rbw \in BandwidthAnswers, vbw \in BandwidthAnswers,
          ref \in LevelAnswers, sw \in SweepAnswers, amp \in ScaleAnswers,
          att \in AttenuationAnswers, avg \in AverageAnswers :
          sample = [now |-> now,
                    answers |-> <<trace, c, sp, rbw, vbw, ref, sw, amp, att, avg>>,
                    lines |-> <<>>]

\* file.write(header line)
FormatHeader ==
    /\ sample.lines = <<>>
    /\ sample' = [sample EXCEPT !.lines = <<HeaderText(sample.now, sample.answers)>>]
    /\ UNCHANGED <<opened, pause, timer, stack, file, handles, canvas, session,
                   served, nextId>>

\* file.write(trace line + blank line)
FormatTrace ==
    /\ Len(sample.lines) = 1
    /\ sample' = [sample EXCEPT !.lines = @ \o <<TraceText(sample.answers), "">>]
    /\ UNCHANGED <<opened, pause, timer, stack, file, handles, canvas, session,
                   served, nextId>>

FormatNext == FormatHeader \/ FormatTrace

FormatSpec == FormatInit /\ [][FormatNext]_vars

-----------------------------------------------------------------------------
(* Vocabulary of the properties *)

IsPrefix(a, b) == Len(a) <= Len(b) /\ SubSeq(b, 1, Len(a)) = a

Last(q) == q[Len(q)]

Running == stack # <<>>

\* The innermost handler in progress is update_plot at place pc.
TickAt(pc) == IF Running THEN Top.op = "update_plot" /\ Top.pc = pc ELSE FALSE

\* The step is taken by the innermost handler and keeps it on the stack.
StaysOnTop == Running /\ Len(stack') = Len(stack)

\* The innermost handler returns in this step.
Returns == Running /\ Len(stack') = Len(stack) - 1

TickFrames == {i \in DOMAIN stack : stack[i].op = "update_plot"}

\* Lines i, i+1, i+2 of log are one complete record written by one tick.
RecordAt(log, i) ==
    /\ log[i].kind = "header" /\ log[i].end = "*"
    /\ log[i + 1].kind = "trace" /\ log[i + 1].end = "@"
    /\ log[i + 2].kind = "blank"
    /\ log[i + 1].by = log[i].by /\ log[i + 2].by = log[i].by

\* log is a sequence of complete records.
WholeRecords(log) ==
    \E n \in 0..Len(log) :
        /\ Len(log) = n + n + n
        /\ \A j \in 0..(n - 1) : RecordAt(log, j + j + j + 1)

\* The commands this step sends to the instrument.
QueryIssued ==
    /\ session' # session
    /\ \E k \in DOMAIN Queries : Last(session'.calls).cmd = Queries[k]

-----------------------------------------------------------------------------
(* C1 *)

\* C1: a tick that runs while not paused and whose ten queries, file open and
\* two writes succeed appends exactly one record to the log: a header line
\* ending with '*', a trace line ending with '@', a blank line.  It appends
\* nothing else, and what the log held before is unchanged: every step leaves
\* the old content as a prefix, the tick has appended nothing before the end
\* of its with block, and nothing after it.
C1_TickAppendsOneRecord ==
    [][ /\ IsPrefix(file, file')
        /\ (TickAt("write2") /\ StaysOnTop /\ Top'.pc = "plot") =>
              /\ pause = "False"
              /\ Len(file) = Top.startLen
              /\ Len(file') = Len(file) + (1 + 1 + 1)
              /\ RecordAt(file', Len(file) + 1)
              /\ file'[Len(file) + 1].by = Top.id
        /\ (Running /\ Top.op = "update_plot" /\ Top.pc # "write2"
              /\ ~EventLoopRunning) => file' = file
      ]_vars

\* A second record has just been appended behind an earlier one.
C1_Witness ==
    /\ TickAt("plot")
    /\ Top.startLen > 0
    /\ Len(file) = Top.startLen + (1 + 1 + 1)
    /\ WholeRecords(file)

-----------------------------------------------------------------------------
(* C2 *)

\* C2: from pause() to the next resume() every tick is a no-op.  While
\* self.pause is True no update_plot body is in progress and no file object
\* is open, and no step issues an instrument query, changes the log or the
\* plot, or starts an update_plot body; this for any number of ticks.
C2_PausedTicksAreNoOps ==
    /\ [](pause = "True" => (TickFrames = {} /\ handles = {}))
    /\ [][ pause = "True" =>
              /\ ~QueryIssued
              /\ file' = file
              /\ canvas' = canvas
              /\ handles' = handles
              /\ (pause' = "True" =>
                    {i \in DOMAIN stack' : stack'[i].op = "update_plot"} = {})
         ]_vars

\* Two timer ticks have come and gone while paused: the session was opened,
\* two invocations were counted, and the instrument was never called.
C2_Witness ==
    /\ opened /\ pause = "True" /\ ~Running
    /\ nextId = 3 /\ session.by = 0

-----------------------------------------------------------------------------
(* C3 *)

\* C3 as stated: whenever the update_plot called by resume_updates returns
\* (the instrument session having been opened), exactly one record has been appended and the plot has been updated once
\* since resume_updates was called.
C3_ResumeAlwaysLogsAndPlots ==
    [][ (opened /\ Returns /\ Top.op = "update_plot" /\ Top.via = "resume") =>
            /\ Len(file') = Top.startLen + (1 + 1 + 1)
            /\ canvas'.draws = Top.startDraws + 1
      ]_vars

\* C3, amended: resume_updates sets self.pause to False and runs the body of
\* update_plot at once, within the call (whatever the timer does and whatever
\* self.pause was); if the ten queries, the file open, the two writes and the
\* plot update of that tick all succeed, then exactly one record has been
\* appended and the plot has been updated once when resume_updates returns.
C3_ResumeRunsOneTick ==
    [][ /\ ResumeUpdates =>
              /\ pause' = "False"
              /\ Len(stack') = Len(stack) + 1
              /\ Top'.op = "update_plot" /\ Top'.via = "resume"
              /\ Top'.pc = "query" /\ Top'.vals = <<>>
        /\ (Returns /\ Top.op = "update_plot" /\ Top.via = "resume"
              /\ Top.err = "") =>
              /\ pause' = "False"
              /\ Len(file') = Top.startLen + (1 + 1 + 1)
              /\ RecordAt(file', Top.startLen + 1)
              /\ file'[Top.startLen + 1].by = Top.id
              /\ canvas'.draws = Top.startDraws + 1
              /\ canvas'.data = <<Top.vals[1]>>
      ]_vars

\* The tick of a resume_updates call has logged its record and is about to
\* plot, with the periodic timer running.
C3_Witness ==
    /\ TickAt("plot") /\ Top.via = "resume"
    /\ timer = "active"
    /\ Len(file) = Top.startLen + (1 + 1 + 1)

-----------------------------------------------------------------------------
(* C4 *)

\* C4: the record write is all-or-nothing per tick: whenever no file object
\* is open, the log is a sequence of complete header / trace / blank records.
C4_AllOrNothing == handles = {} => WholeRecords(file)

-----------------------------------------------------------------------------
(* C5 *)

ResetFrames == {i \in DOMAIN stack : stack[i].op = "reset_parameters"}

Cmds(calls) == [j \in DOMAIN calls |-> calls[j].cmd]

\* The order of the claim: reset, center frequency, span, resolution
\* bandwidth, video bandwidth, reference level, amplitude per division,
\* attenuation, average count.
ClaimedOrder ==
    << "*RST",
       ":SENSE:FREQ:CENTER 100000000.0", ":SENSE:FREQ:SPAN 1000000000.0",
       ":SENSE:BAND:RES 100000.0", ":SENSE:BAND:VID 100000.0",
       ":DISP:WIND:TRAC:Y:RLEV -10.0", ":DISP:WIND:TRAC:Y:SCAL 10.0",
       ":INP:ATT 0.0", ":AVER:COUN 1.0" >>

\* C5: reset_parameters sends the device reset first and then the eight
\* configuration writes in the order center frequency, span, resolution
\* bandwidth, video bandwidth, reference level, amplitude per division,
\* attenuation, average count.  When a write fails, the writes before it have
\* been sent and stay sent, the handler shows the error, and it sends nothing
\* more: what the session has received from a reset in progress is a prefix of
\* that sequence, ending with the failed write if one failed.
C5_ResetSequence ==
    /\ [](\A i \in ResetFrames :
            LET f == stack[i] IN
            /\ f.pc \in {"write", "information", "critical"}
            /\ Len(f.vals) <= Len(ClaimedOrder)
            /\ (f.pc = "information") = (Len(f.vals) = Len(ClaimedOrder))
            /\ (f.pc = "critical") = (f.err = "write")
            /\ session.by = f.id =>
                  /\ Cmds(session.calls) = SubSeq(ClaimedOrder, 1, Len(session.calls))
                  /\ \A j \in 1..Len(f.vals) : session.calls[j].done
                  /\ IF f.pc = "critical"
                     THEN /\ Len(session.calls) = Len(f.vals) + 1
                          /\ ~Last(session.calls).done
                     ELSE Len(session.calls) = Len(f.vals)
            /\ (opened /\ session.by # f.id) =>
                  \/ f.pc = "write" /\ f.vals = <<>>
                  \/ f.pc \in DialogPcs /\ f.id \in served)
    /\ [][ \A i \in ResetFrames :
              stack[i].pc \in DialogPcs =>
                  (session' = session \/ session'.by # stack[i].id)
         ]_vars

\* The fourth configuration write (video bandwidth) has failed: the reset and
\* three configuration writes were sent, the error dialog is open.
C5_Witness ==
    /\ Running
    /\ Top.op = "reset_parameters" /\ Top.pc = "critical"
    /\ Len(Top.vals) = 1 + 1 + 1 + 1
    /\ session.by = Top.id
    /\ Last(session.calls).cmd = ":SENSE:BAND:VID 100000.0"
    /\ ~Last(session.calls).done

-----------------------------------------------------------------------------
(* C6 *)

\* C6: a failure at any step of a tick aborts the rest of the tick and is
\* shown to the user; it leaves self.pause and the timer as they were, and
\* nothing is retried.  A call that did not complete puts its handler in the
\* error dialog with nothing more done; a handler in the error dialog takes
\* no further step of its own (it only returns), and the handlers beneath the
\* innermost one stay as they are; entering the dialog changes neither
\* self.pause nor the timer, which no step ever changes; self.pause changes
\* only when no handler is in progress.  With no handler in progress the
\* timer of an opened session can fire, and an update_plot body always starts
\* at the first query with no result carried over.
C6_FailureAbortsTickOnly ==
    /\ [](\A i \in TickFrames :
            /\ pause = "False"
            /\ (stack[i].pc = "critical") = (stack[i].err # ""))
    /\ []((~Running /\ opened /\ nextId <= MaxInvocations) => ENABLED TimerTimeout)
    /\ [][ /\ timer' = timer
           /\ pause' # pause => ~Running
           /\ (session' # session /\ ~Last(session'.calls).done) =>
                 /\ StaysOnTop
                 /\ Top'.pc = "critical"
                 /\ Top'.vals = Top.vals
                 /\ file' = file /\ canvas' = canvas
           /\ (Running /\ StaysOnTop /\ Top.pc # "critical" /\ Top'.pc = "critical") =>
                 /\ pause' = pause
                 /\ Top'.vals = Top.vals
           /\ (Running /\ Top.pc = "critical") =>
                 /\ Len(stack') >= Len(stack) => stack'[Len(stack)] = Top
                 /\ session' # session => session'.by # Top.id
           /\ \A i \in 1..(Len(stack) - 1) :
                 i <= Len(stack') /\ stack'[i] = stack[i]
           /\ (Len(stack') > Len(stack) /\ Top'.op = "update_plot") =>
                 /\ Top'.pc = "query" /\ Top'.vals = <<>> /\ Top'.err = ""
         ]_vars

\* A tick has failed at a query and shows its error; the next scheduled tick
\* has run its ten queries and appended its record.
C6_Witness ==
    /\ Len(stack) = 1 + 1
    /\ stack[1].op = "update_plot" /\ stack[1].pc = "critical"
    /\ stack[1].err = "query"
    /\ TickAt("plot") /\ Top.via = "timer"
    /\ Len(file) = Top.startLen + (1 + 1 + 1)
    /\ pause = "False"

-----------------------------------------------------------------------------
(* C7 *)

\* C7: at no time are two invocations of update_plot in progress, an
\* invocation blocked in its error dialog counting as in progress.
C7_NoOverlappingTicks == Cardinality(TickFrames) <= 1

-----------------------------------------------------------------------------
(* C8 *)

\* C8: the instrument session is used only by update_plot and
\* reset_parameters, and their call sequences never interleave.  Every call is
\* made by the innermost handler, which is one of the two and is at one of
\* its instrument calls, while every handler beneath it is blocked in a
\* dialog; and an invocation never calls the instrument again once another
\* invocation has called it (served holds the invocations whose sequence was
\* followed by another's).
C8_CallsNotInterleaved ==
    /\ [](\A i \in 1..(Len(stack) - 1) : stack[i].pc \in DialogPcs)
    /\ [][ session' # session =>
              /\ Running
              /\ Top.op \in {"update_plot", "reset_parameters"}
              /\ Top.pc \in {"query", "write"}
              /\ session'.by = Top.id
              /\ Len(session'.calls) = IF session.by = Top.id
                                       THEN Len(session.calls) + 1 ELSE 1
              /\ Top.id \notin served
              /\ served' = IF session.by \in {0, Top.id}
                           THEN served ELSE served \cup {session.by}
         ]_vars

\* A tick is in the middle of its queries while the dialog of a reset, whose
\* writes came before, is still open.
C8_Witness ==
    /\ Len(stack) = 1 + 1
    /\ stack[1].op = "reset_parameters" /\ stack[1].id \in served
    /\ TickAt("query") /\ session.by = Top.id
    /\ Len(session.calls) > 1

-----------------------------------------------------------------------------
(* C9 *)

\* The values of a line all come from the invocation that wrote the line, and
\* are the timestamp and the answers to queries 2..10 (header) or the answer
\* to query 1 (trace), in that order.
OwnSample(line) ==
    /\ \A j \in DOMAIN line.fields : line.fields[j].by = line.by
    /\ line.kind = "header" =>
          /\ Len(line.fields) = Len(Queries)
          /\ \A j \in DOMAIN line.fields :
                line.fields[j].q = IF j = 1 THEN 0 ELSE j
    /\ line.kind = "trace" =>
          /\ Len(line.fields) = 1
          /\ line.fields[1].q = 1
    /\ line.kind = "blank" => line.fields = <<>>

\* C9: every record in the log, buffered or on disk, is built from the answers
\* to the queries of the one tick that writes it; the values a tick holds are
\* the answers to its own queries; and the trace on the plot is the trace of a
\* record in the log, logged by the tick whose query returned it.  With no
\* handler in progress nothing of a sample is left outside the log and the
\* plot surface.
C9_SampleFromOneTick ==
    /\ \A i \in DOMAIN file : OwnSample(file[i])
    /\ \A h \in handles : \A i \in DOMAIN h.buf :
          OwnSample(h.buf[i]) /\ h.buf[i].by = h.by
    /\ \A i \in DOMAIN stack :
          \A j \in DOMAIN stack[i].vals :
              stack[i].vals[j] = [by |-> stack[i].id, q |-> j]
    /\ canvas.data # <<>> =>
          /\ Len(canvas.data) = 1
          /\ canvas.data[1].q = 1
          /\ \E i \in DOMAIN file :
                /\ file[i].kind = "trace"
                /\ file[i].fields = canvas.data
                /\ file[i].by = canvas.data[1].by
    /\ ~Running => handles = {}

\* Two ticks have logged and plotted; the plot shows the trace of the second.
C9_Witness ==
    /\ ~Running
    /\ Len(file) = (1 + 1 + 1) + (1 + 1 + 1)
    /\ canvas.draws = 1 + 1
    /\ canvas.data # <<>>
    /\ canvas.data = file[Len(file) - 1].fields
    /\ file[1].by # file[Len(file)].by

-----------------------------------------------------------------------------
(* C10 *)

\* C10: the log file is open only inside the with block of a tick.  A file
\* object exists only while the innermost handler is update_plot between its
\* open and the end of its two writes, and it is that tick's; so none is open
\* while an event loop runs (between ticks, in any dialog, also the error
\* dialog after a failed write) or while self.pause is True.
C10_HandleScopedToTick ==
    /\ handles # {} =>
          /\ Running
          /\ Top.op = "update_plot" /\ Top.pc \in {"write1", "write2"}
          /\ handles = {HandleOf(handles, Top.id)}
          /\ HandleOf(handles, Top.id).by = Top.id
    /\ EventLoopRunning => handles = {}
    /\ pause = "True" => handles = {}
    /\ (Running /\ Top.op = "update_plot" /\ Top.pc \in {"write1", "write2"}) =>
          handles # {}

\* The second write of a tick has failed; its error dialog is open and the
\* file is closed (the header line has reached the disk).
C10_Witness ==
    /\ TickAt("critical") /\ Top.err = "write2"
    /\ handles = {}
    /\ Len(file) = Top.startLen + 1

-----------------------------------------------------------------------------
(* C11 *)

IsDigit(c) == \E i \in DOMAIN DigitChars : DigitChars[i] = c

DigitVal(c) == (CHOOSE i \in DOMAIN DigitChars : DigitChars[i] = c) - 1

AllDigits(t) == Len(t) > 0 /\ \A i \in 1..Len(t) : IsDigit(SubSeq(t, i, i))

\* The number a text of digits spells.
RECURSIVE ParseNat(_)
ParseNat(t) ==
    IF Len(t) = 0 THEN 0
    ELSE ParseNat(SubSeq(t, 1, Len(t) - 1)) * 10 + DigitVal(SubSeq(t, Len(t), Len(t)))

\* The place of the first c in t, 0 if there is none.
FirstOf(t, c) ==
    IF \E i \in 1..Len(t) : SubSeq(t, i, i) = c
    THEN CHOOSE i \in 1..Len(t) :
            /\ SubSeq(t, i, i) = c
            /\ \A j \in 1..(i - 1) : SubSeq(t, j, j) # c
    ELSE 0

\* The comma-separated fields of a line.
RECURSIVE Split(_)
Split(t) ==
    LET i == FirstOf(t, ",")
    IN  IF i = 0 THEN <<t>>
        ELSE <<SubSeq(t, 1, i - 1)>> \o Split(SubSeq(t, i + 1, Len(t)))

IsNegative(t) == IF Len(t) = 0 THEN FALSE ELSE SubSeq(t, 1, 1) = "-"

Unsigned(t) == IF IsNegative(t) THEN SubSeq(t, 2, Len(t)) ELSE t

\* The digits after the point of t.
Decimals(t) == Len(Unsigned(t)) - FirstOf(Unsigned(t), ".")

\* t is [-]digits.digits with exactly d digits after the point.
FixedPoint(t, d) ==
    LET u == Unsigned(t)
    IN  /\ Len(u) >= d + 2
        /\ SubSeq(u, Len(u) - d, Len(u) - d) = "."
        /\ AllDigits(SubSeq(u, 1, Len(u) - d - 1))
        /\ AllDigits(SubSeq(u, Len(u) - d + 1, Len(u)))

\* Without its sign, 10^d times the number a FixedPoint(t, d) text spells.
Scaled(t, d) ==
    LET u == Unsigned(t)
    IN  ParseNat(SubSeq(u, 1, Len(u) - d - 1)) * Pow10(d)
            + ParseNat(SubSeq(u, Len(u) - d + 1, Len(u)))

\* The text t spells the number x times 10^k, sign included.
Spells(t, x, k) ==
    LET d == Decimals(t)
    IN  /\ d >= 1 /\ FixedPoint(t, d)
        /\ IsNegative(t) = x.neg
        /\ Scaled(t, d) * Pow10(x.s) = x.m * Pow10(k) * Pow10(d)

\* The text t spells, with two decimals, the two-decimal number nearest to x.
NearestTwoDecimals(t, x) ==
    LET unit == Pow10(x.s - 2)
        n    == Scaled(t, 2) * unit
        diff == IF n >= x.m THEN n - x.m ELSE x.m - n
    IN  /\ FixedPoint(t, 2)
        /\ IsNegative(t) = x.neg
        /\ diff + diff <= unit

\* The mocked tick of the specification: center 100e6 Hz, span 1e9 Hz, rbw and
\* vbw 1e5 Hz, ref -10, sweep 0.01 s, ampdiv 10, att 0, avg 1, trace
\* [-50.123, -60.456], at 2024-07-12 10:00:00.
MockedTick ==
    /\ sample.now = <<2024, 7, 12, 10, 0, 0>>
    /\ sample.answers =
          << << Num(TRUE, 50123, 3), Num(TRUE, 60456, 3) >>,
             Num(FALSE, 100000000, 0), Num(FALSE, 1000000000, 0),
             Num(FALSE, 100000, 0), Num(FALSE, 100000, 0),
             Num(TRUE, 10, 0), Num(FALSE, 1, 2), Num(FALSE, 10, 0),
             Num(FALSE, 0, 0), Num(FALSE, 1, 0) >>

\* C11: the header line is timestamp, center frequency (Hz / 1e6, 6 decimals),
\* span (Hz / 1e9, 9 decimals), resolution and video bandwidth (Hz / 1e3, 3
\* decimals), reference level, sweep time (seconds times 1000), amplitude per
\* division, attenuation, average count, then '*'; the trace line holds each
\* amplitude with 2 decimals, rounded to the nearest, then '@'.  750,000,000 Hz
\* reads 750.000000, a span of 200,000,000 Hz reads 0.200000000, and the
\* mocked tick gives the two lines of the specification.
C11_ExactFormatting ==
    LET a == sample.answers
        H == Split(sample.lines[1])
        T == Split(sample.lines[2])
    IN
    /\ Len(sample.lines) >= 1 =>
          /\ Len(H) = Len(Queries) + 1
          /\ H[Len(H)] = "*"
          /\ FixedPoint(H[2], 6) /\ Scaled(H[2], 6) = a[2].m
          /\ FixedPoint(H[3], 9) /\ Scaled(H[3], 9) = a[3].m
          /\ FixedPoint(H[4], 3) /\ Scaled(H[4], 3) = a[4].m
          /\ FixedPoint(H[5], 3) /\ Scaled(H[5], 3) = a[5].m
          /\ Spells(H[6], a[6], 0)
          /\ Spells(H[7], a[7], 3)
          /\ Spells(H[8], a[8], 0)
          /\ Spells(H[9], a[9], 0)
          /\ Spells(H[10], a[10], 0)
          /\ a[2] = Num(FALSE, 750000000, 0) => H[2] = "750.000000"
          /\ a[3] = Num(FALSE, 200000000, 0) => H[3] = "0.200000000"
          /\ MockedTick => sample.lines[1] =
                "2024-07-12 10:00:00,100.000000,1.000000000,100.000,100.000,-10.0,10.0,10.0,0.0,1.0,*"
    /\ Len(sample.lines) >= 2 =>
          /\ Len(sample.lines) = 3 /\ sample.lines[3] = ""
          /\ T[Len(T)] = "@"
          /\ a[1] # <<>> =>
                /\ Len(T) = Len(a[1]) + 1
                /\ \A i \in DOMAIN a[1] : NearestTwoDecimals(T[i], a[1][i])
          /\ MockedTick => sample.lines[2] = "-50.12,-60.46,@"

\* The mocked tick has written both lines.
C11_Witness == MockedTick /\ Len(sample.lines) = 3

-----------------------------------------------------------------------------
(* C12 *)

\* The order of the claim: trace data, center frequency, span, resolution
\* bandwidth, video bandwidth, reference level, sweep time, amplitude per
\* division, attenuation, average count.
ClaimedQueryOrder ==
    << "TRACE:DATA? TRACE1", ":SENSE:FREQ:CENTER?", ":SENSE:FREQ:SPAN?",
       ":SENSE:BAND:RES?", ":SENSE:BAND:VID?", ":DISP:WIND:TRAC:Y:RLEV?",
       ":SWE:TIME?", ":DISP:WIND:TRAC:Y:SCAL?", ":INP:ATT?", ":AVER:COUN?" >>

\* This step sends a command of the claimed list to the instrument.
SendsQuery ==
    /\ session' # session
    /\ \E k \in DOMAIN ClaimedQueryOrder :
          Last(session'.calls).cmd = ClaimedQueryOrder[k]

\* The answers a tick holds are those of its own first n queries, in order.
AnswersInOrder(f) ==
    \A j \in DOMAIN f.vals : f.vals[j] = [by |-> f.id, q |-> j]

\* C12: a tick that is not paused issues its queries one after another in the
\* order trace data, center frequency, span, resolution bandwidth, video
\* bandwidth, reference level, sweep time, amplitude per division,
\* attenuation, average count.  Each is issued at most once per tick and only
\* after every earlier query of the tick has returned successfully: what the
\* session has received from the tick with the k-th query is exactly the first
\* k entries of that list, the k-1 before it completed and answered.  The log
\* file is opened only after all ten have succeeded: a tick at or past the
\* open holds ten answers, and so does every tick with a file object.
C12_QueriesInOrder ==
    /\ [][ SendsQuery =>
              /\ TickAt("query")
              /\ LET f == Top
                     k == Len(f.vals) + 1
                 IN  /\ k <= Len(ClaimedQueryOrder)
                     /\ session'.by = f.id
                     /\ Len(session'.calls) = k
                     /\ Cmds(session'.calls) = SubSeq(ClaimedQueryOrder, 1, k)
                     /\ \A j \in 1..(k - 1) : session'.calls[j].done
                     /\ AnswersInOrder(f)
                     /\ stack'[Len(stack)].id = f.id
                     /\ stack'[Len(stack)].pc \in {"query", "open", "critical"}
                     /\ stack'[Len(stack)].pc = "open" => k = Len(ClaimedQueryOrder)
                     /\ stack'[Len(stack)].pc = "query" =>
                           Len(stack'[Len(stack)].vals) = k
         ]_vars
    /\ [](\A i \in TickFrames :
            LET f == stack[i] IN
            /\ AnswersInOrder(f)
            /\ Len(f.vals) <= Len(ClaimedQueryOrder)
            /\ (f.pc \in {"open", "write1", "write2", "plot"}
                  \/ f.err \in {"open", "write1", "write2", "plot"})
                  => Len(f.vals) = Len(ClaimedQueryOrder)
            /\ f.pc = "query" => Len(f.vals) < Len(ClaimedQueryOrder))
    /\ [](\A h \in handles :
            \E i \in TickFrames :
                /\ stack[i].id = h.by
                /\ Len(stack[i].vals) = Len(ClaimedQueryOrder))
    /\ [][ handles' # handles /\ handles \subseteq handles' =>
              /\ TickAt("open")
              /\ Len(Top.vals) = Len(ClaimedQueryOrder)
              /\ session.by = Top.id
              /\ Cmds(session.calls) = ClaimedQueryOrder
              /\ \A j \in DOMAIN session.calls : session.calls[j].done
         ]_vars

\* A tick has issued all ten queries, each answered, and is about to open the
\* log file.
C12_Witness ==
    /\ TickAt("open")
    /\ Len(Top.vals) = Len(ClaimedQueryOrder)
    /\ session.by = Top.id
    /\ Cmds(session.calls) = ClaimedQueryOrder

-----------------------------------------------------------------------------
(* C13 *)

\* This step is the start of reset_parameters.
ResetEntered ==
    /\ Len(stack') = Len(stack) + 1
    /\ stack'[Len(stack')].op = "reset_parameters"

\* This step is taken while reset_parameters is the innermost handler and is
\* not the start of a handler the event loop of its dialog calls.
ResetOnTop ==
    IF Running
    THEN Top.op = "reset_parameters" /\ Len(stack') <= Len(stack)
    ELSE FALSE

\* C13: reset_parameters is not gated by the pause flag: whenever the window
\* takes clicks, a reset can start, whatever the flag is.  It touches nothing
\* but the instrument: its start, each of its writes (succeeding or failing)
\* and its return leave paused, the log file, the file objects and the plot
\* unchanged, and what it sends is never a query.  Nothing in the log, in a
\* file object or on the plot comes from a reset, and pause does not change
\* while a reset is in progress; when the loop is paused or was never started,
\* the log and the plot stay as they are from its start to its return and the
\* instrument receives no query.
C13_ResetTouchesInstrumentOnly ==
    /\ []((AcceptsInput /\ nextId <= MaxInvocations) => ENABLED ResetParameters)
    /\ [][ (ResetEntered \/ ResetOnTop) =>
              /\ pause' = pause
              /\ file' = file
              /\ handles' = handles
              /\ canvas' = canvas
              /\ timer' = timer
              /\ ~SendsQuery
         ]_vars
    /\ [][ ResetFrames # {} => pause' = pause ]_vars
    /\ [][ (ResetFrames # {} /\ pause # "False") =>
              /\ file' = file
              /\ canvas' = canvas
              /\ ~SendsQuery
         ]_vars
    /\ [](\A i \in ResetFrames :
            /\ \A j \in DOMAIN file : file[j].by # stack[i].id
            /\ \A h \in handles : h.by # stack[i].id
            /\ \A j \in DOMAIN canvas.data : canvas.data[j].by # stack[i].id)

\* A reset started while the loop is paused, after a tick has logged and
\* plotted, has sent all nine writes.
C13_Witness ==
    /\ pause = "True"
    /\ Running
    /\ Last(stack).op = "reset_parameters"
    /\ Last(stack).pc = "information"
    /\ file # <<>>
    /\ canvas.draws > 0

-----------------------------------------------------------------------------
(* C14 *)

\* The places in log where a complete record starts.
RecordStarts(log) == {i \in 1..(Len(log) - 2) : RecordAt(log, i)}

\* The number of complete records in log.
CompleteRecords(log) == Cardinality(RecordStarts(log))

\* The log holds the complete record of invocation id, and id holds no file
\* object any more.
RecordClosed(id) ==
    /\ \E i \in RecordStarts(file) : file[i].by = id
    /\ \A h \in handles : h.by # id

WriteErrors == {"query", "open", "write1", "write2"}

\* C14: within a tick the plot update happens only after the record of that
\* tick has been completely appended to the log and the file closed.  In every
\* state the number of plot updates performed is at most the number of
\* complete records in the log; every step that changes the plot is taken by a
\* tick whose record is in the log and whose file is closed; a tick whose
\* queries, open or writes failed is never at the plot update and nothing on
\* the plot comes from it; a tick whose plot update failed has its record in
\* the log.
C14_PlotAfterRecord ==
    /\ [](canvas.draws <= CompleteRecords(file))
    /\ [][ canvas' # canvas =>
              /\ TickAt("plot")
              /\ RecordClosed(Top.id)
              /\ Len(file) >= Top.startLen + (1 + 1 + 1)
              /\ file' = file
              /\ canvas'.draws <= canvas.draws + 1
         ]_vars
    /\ [](\A i \in TickFrames :
            LET f == stack[i] IN
            /\ (f.pc = "plot" \/ f.err = "plot") => RecordClosed(f.id)
            /\ f.err \in WriteErrors =>
                  /\ f.pc = "critical"
                  /\ \A j \in DOMAIN canvas.data : canvas.data[j].by # f.id
                  /\ \A j \in RecordStarts(file) : file[j].by # f.id)
    /\ [][ \A i \in TickFrames :
              stack[i].err \in WriteErrors =>
                  \/ Len(stack') < i
                  \/ stack'[i] = stack[i]
         ]_vars

\* After one tick has logged and plotted, the plot update of a second tick
\* has failed: its record is in the log, the plot count is behind.
C14_Witness ==
    /\ Running
    /\ Last(stack).op = "update_plot"
    /\ Last(stack).err = "plot"
    /\ canvas.draws = 1
    /\ CompleteRecords(file) = 1 + 1

-----------------------------------------------------------------------------
(* C15 *)

\* The state initUI leaves behind.
StartsAsClaimed ==
    IF opened THEN pause = "False" /\ timer = "active"
              ELSE pause = "unset" /\ timer = "none"

\* A call of update_plot is made in this step.
TickAttempted == nextId' # nextId /\ ~ResetEntered

\* C15: when opening the instrument session fails at startup, initUI returns
\* before the pause flag is set and before the timer is created.  From then on
\* there is no timer and no scheduled tick fires: every call of update_plot
\* is made by resume_updates, from a click.  Its tick raises at the first
\* query, before anything is sent, and stands in the error dialog until that
\* is closed; it opens no file and nothing is ever appended to the log or
\* plotted.  The program keeps running: with no dialog open the buttons work.
\* When the session opens, paused starts false and the timer is running, and
\* the timer is never stopped.
C15_FailedStartup ==
    /\ StartsAsClaimed
    /\ [](opened => timer = "active")
    /\ [](~opened =>
            /\ timer = "none"
            /\ pause # "unset" => pause \in {"True", "False"}
            /\ file = <<>> /\ handles = {} /\ canvas.draws = 0
            /\ session.calls = <<>>
            /\ \A i \in TickFrames :
                  /\ stack[i].via = "resume"
                  /\ stack[i].vals = <<>>
                  /\ stack[i].pc \in {"query", "critical"}
                  /\ (stack[i].pc = "critical") = (stack[i].err = "query")
            /\ AcceptsInput =>
                  /\ ENABLED PauseUpdates
                  /\ ENABLED SavePlotImage
                  /\ nextId <= MaxInvocations => ENABLED ResumeUpdates)
    /\ [][ (~opened /\ TickAttempted) =>
              /\ AcceptsInput
              /\ pause' = "False"
              /\ Len(stack') = 1
              /\ stack'[1].op = "update_plot"
              /\ stack'[1].via = "resume"
         ]_vars
    /\ [][ (~opened /\ TickAt("query") /\ stack' # stack) =>
              /\ Len(stack') = Len(stack)
              /\ stack'[Len(stack)].pc = "critical"
              /\ stack'[Len(stack)].err = "query"
              /\ file' = file /\ canvas' = canvas /\ session' = session
         ]_vars
    /\ [][ opened' = opened ]_vars

\* Without a session, the tick of resume_updates stands in its error dialog
\* and the log is empty.
C15_Witness ==
    /\ ~opened
    /\ TickAt("critical")
    /\ Top.via = "resume"
    /\ Top.err = "query"
    /\ pause = "False"
    /\ timer = "none"
    /\ file = <<>>

=============================================================================
